---- MODULE Spec2Model ----
(***************************************************************************)
(* Model of the credential lifecycle of the authentication backend:        *)
(*   src/src/controllers/auth.controller.js  (registerUser, verifyOtp,     *)
(*        loginUser, logoutUser, resendOtp, the OTP cache and its sweep,   *)
(*        authMiddleware)                                                  *)
(*   src/unnamed/part_000                     (the User schema)            *)
(*   src/unnamed/part_001                     (connectDB, the router, the  *)
(*        startup script)                                                  *)
(*                                                                         *)
(* A request is handled in steps: one step per stretch of handler code     *)
(* between two awaits.  The steps of different requests interleave, the    *)
(* code inside one step runs without interruption (one JavaScript thread). *)
(***************************************************************************)
EXTENDS Integers, Sequences, FiniteSets

VARIABLES
    users,      \* the User collection: a set of documents
    otpCache,   \* the otpCache Map: a function whose DOMAIN is the set of keys
    now,        \* Date.now(), in milliseconds
    reqs,       \* the requests in flight, and the last response of each slot;
                \* the field note is history: the case the request met
    consumed,   \* history: the keys whose latest issued entry was accepted
    retryCount, \* the retryCount of the connection module
    connecting, \* the calls of mongoose.connect that have not settled
    timers,     \* the delays of the setTimeout(connectDB, delay) not yet fired
    connected,  \* connectDB reached its success branch
    startup,    \* the position of the server's startup script
    dbUp,       \* environment: a connect attempt that settles now succeeds
    delays,     \* history: the retry delays computed so far, in order
    mw          \* the last run of authMiddleware: the token it was given,
                \* its response, req.user, and whether next() was called

dbvars == <<retryCount, connecting, timers, connected, startup, dbUp, delays>>

authvars == <<users, otpCache, now, reqs, consumed, mw>>

vars == <<users, otpCache, now, reqs, consumed,
          retryCount, connecting, timers, connected, startup, dbUp, delays, mw>>

----------------------------------------------------------------------------
(* Program constants *)

OTP_EXPIRY_TIME == 10 * 60 * 1000

OTP_LENGTH == 6

JWT_EXPIRE_SECONDS == 24 * 60 * 60

MAX_RETRY_DELAY == 60000

----------------------------------------------------------------------------
(* Bounds of the model *)

\* The number of clock advances in a behaviour.
MaxTicks == 2

\* The number of clock advances of half a token lifetime in a behaviour.
MaxTokenTicks == 3

\* The number of failed connect attempts in a behaviour.
MaxFailures == 9

\* One clock advance: the expiry window, so that an entry is seen at age 0,
\* at exactly the window, and above it.
TickMs == OTP_EXPIRY_TIME

\* The request slots: how many requests can be in flight at once.
Slots == {1, 2}

\* The slots of the serial specification, which answers a request before the
\* next one arrives.
Serial == {1}

\* The request bodies that reach the controllers.
Emails == {"A@x.com", "b@x.com"}

Passwords == {"secret1", "secret2"}

Salts == {"salt"}

\* The integers offered to generateOtp as outcomes of crypto.randomInt; the
\* ones outside the range randomInt draws from are discarded by GenerateOtp.
OtpCandidates == {99999, 100000, 999998, 999999}

----------------------------------------------------------------------------
(* Strings as sequences of one-character strings *)

RECURSIVE Pow(_, _)
Pow(b, e) == IF e = 0 THEN 1 ELSE b * Pow(b, e - 1)

DigitChar(d) ==
    CASE d = 0 -> "0" [] d = 1 -> "1" [] d = 2 -> "2" [] d = 3 -> "3"
      [] d = 4 -> "4" [] d = 5 -> "5" [] d = 6 -> "6" [] d = 7 -> "7"
      [] d = 8 -> "8" [] d = 9 -> "9"

\* The value of character c as a digit of the given radix, -1 when it is none.
DigitVal(c, radix) ==
    LET v == CASE c = "0" -> 0 [] c = "1" -> 1 [] c = "2" -> 2 [] c = "3" -> 3
               [] c = "4" -> 4 [] c = "5" -> 5 [] c = "6" -> 6 [] c = "7" -> 7
               [] c = "8" -> 8 [] c = "9" -> 9
               [] c \in {"a", "A"} -> 10 [] c \in {"b", "B"} -> 11
               [] c \in {"c", "C"} -> 12 [] c \in {"d", "D"} -> 13
               [] c \in {"e", "E"} -> 14 [] c \in {"f", "F"} -> 15
               [] OTHER -> -1
    IN  IF v < radix THEN v ELSE -1

\* String(n) for a non-negative integer: the digits the e-mail template shows.
RECURSIVE NumberToString(_)
NumberToString(n) ==
    IF n < 10 THEN <<DigitChar(n)>>
    ELSE Append(NumberToString(n \div 10), DigitChar(n % 10))

RECURSIVE SkipSpace(_)
SkipSpace(s) ==
    IF s # <<>> /\ Head(s) = " " THEN SkipSpace(Tail(s)) ELSE s

\* The digits of s read from the left until the first character that is no
\* digit of the radix: <<number of digits read, their value>>.
RECURSIVE ReadDigits(_, _, _, _)
ReadDigits(s, radix, count, acc) ==
    IF s = <<>> \/ DigitVal(Head(s), radix) < 0 THEN <<count, acc>>
    ELSE ReadDigits(Tail(s), radix, count + 1, acc * radix + DigitVal(Head(s), radix))

\* parseInt(s) with no radix argument: leading white space is skipped, a sign
\* is read, a 0x prefix selects radix 16, then the longest run of digits is
\* read and what follows it is ignored.  No digit at all gives NaN.
ParseInt(s) ==
    LET t    == SkipSpace(s)
        neg  == t # <<>> /\ Head(t) = "-"
        u    == IF t # <<>> /\ Head(t) \in {"-", "+"} THEN Tail(t) ELSE t
        hex  == Len(u) >= 2 /\ u[1] = "0" /\ u[2] \in {"x", "X"}
        body == IF hex THEN Tail(Tail(u)) ELSE u
        r    == ReadDigits(body, IF hex THEN 16 ELSE 10, 0, 0)
    IN  [nan |-> r[1] = 0, val |-> IF neg THEN 0 - r[2] ELSE r[2]]

----------------------------------------------------------------------------
(* Helpers of the controller *)

\* crypto.randomInt(min, max) draws from min <= n < max.
GenerateOtp ==
    {n \in OtpCandidates :
        Pow(10, OTP_LENGTH - 1) <= n /\ n < Pow(10, OTP_LENGTH) - 1}

\* The otp values a request body can carry: each code as the e-mail shows it,
\* a code followed by another character, and no otp at all.
OtpInputs ==
    {NumberToString(c) : c \in GenerateOtp}
        \cup {Append(NumberToString(100000), "x")} \cup {<<>>}

\* The email values of a request body that no validator has looked at.
EmailInputs == Emails \cup {""}

\* lowercase: true of the schema, on the e-mail values of the model.
Lowercase(e) == IF e = "A@x.com" THEN "a@x.com" ELSE e

\* bcrypt.hash(password, 10): the salt is part of the hash.
BcryptHash(password, salt) == [salt |-> salt, digest |-> <<salt, password>>]

\* bcrypt.compare(password, hash): hashes again with the salt of the hash.
BcryptCompare(password, hash) == hash.digest = <<hash.salt, password>>

\* jwt.sign({ id }, JWT_SECRET, { expiresIn: JWT_EXPIRE }) at time t.
JwtSign(id, t) ==
    [id |-> id, iat |-> t \div 1000, exp |-> (t \div 1000) + JWT_EXPIRE_SECONDS]

NoRes == [status |-> 0, message |-> "", token |-> {}, userId |-> {}]

\* sendErrorResponse(res, statusCode, message)
sendErrorResponse(statusCode, message) ==
    [status |-> statusCode, message |-> message, token |-> {}, userId |-> {}]

\* sendSuccessResponse(res, statusCode, data)
sendSuccessResponse(statusCode, message, token, userId) ==
    [status |-> statusCode, message |-> message, token |-> token, userId |-> userId]

----------------------------------------------------------------------------
(* The OTP cache (a Map) *)

CacheHas(cache, email) == email \in DOMAIN cache

\* Variant: an entry that exists is not replaced.
CacheSet_IfAbsent(cache, email, entry) ==
    [k \in DOMAIN cache \cup {email} |-> IF k \in DOMAIN cache THEN cache[k] ELSE entry]

CacheSet(cache, email, entry) ==
    [k \in DOMAIN cache \cup {email} |-> IF k = email THEN entry ELSE cache[k]]

\* Variant: the delete is left out.
CacheDelete_Keep(cache, email) == cache

CacheDelete(cache, email) ==
    [k \in DOMAIN cache \ {email} |-> cache[k]]

\* Variant: an entry is deleted from the age of the window on.
cleanExpiredOtps_AtWindow(cache, t) ==
    [k \in {e \in DOMAIN cache : ~(t - cache[e].timestamp >= OTP_EXPIRY_TIME)}
        |-> cache[k]]

\* Variant: the sweep is left out.
cleanExpiredOtps_Keep(cache, t) == cache

\* cleanExpiredOtps(): every entry older than the window is deleted.
cleanExpiredOtps(cache, t) ==
    [k \in {e \in DOMAIN cache : ~(t - cache[e].timestamp > OTP_EXPIRY_TIME)}
        |-> cache[k]]

----------------------------------------------------------------------------
(* The User collection *)

\* Variant: the filter is compared as it was sent.
FindOne_NoCast(us, email) == {d \in us : d.email = email}

\* User.findOne({ email }): the filter is cast by the schema (lowercase), the
\* result is the set of matching documents, empty for null.
FindOne(us, email) == {d \in us : d.email = Lowercase(email)}

\* User.create(doc): the unique index on email refuses a second document with
\* the same stored e-mail (the driver throws a duplicate-key error).
DuplicateKey(us, email) == \E d \in us : d.email = Lowercase(email)

\* Variant: the account is created verified.
NewUser_Verified(us, email, hashedPassword) ==
    [id |-> Cardinality(us) + 1, email |-> Lowercase(email),
     password |-> hashedPassword, isVerified |-> TRUE]

\* The document User.create stores: the e-mail lowercased by the schema, and
\* an _id no other document has (documents are never deleted).
NewUser(us, email, hashedPassword) ==
    [id |-> Cardinality(us) + 1, email |-> Lowercase(email),
     password |-> hashedPassword, isVerified |-> FALSE]

\* Variant: the update is left out.
FindOneAndUpdate_Unchanged(us, email) == us

\* User.findOneAndUpdate({ email }, { isVerified: true }, { new: true }): the
\* collection after the update.
FindOneAndUpdate(us, email) ==
    {IF d.email = Lowercase(email) THEN [d EXCEPT !.isVerified = TRUE] ELSE d : d \in us}

----------------------------------------------------------------------------
(* Requests *)

NoUser == {}

\* A request as it arrives: the fields of its body, and the locals of its
\* handler still unset.
Request(op, email, password, otp) ==
    [op |-> op, pc |-> "", email |-> email, password |-> password, otp |-> otp,
     user |-> NoUser, code |-> 0, send |-> "", note |-> "", res |-> NoRes]

Idle == [Request("", "", "", <<>>) EXCEPT !.pc = "idle"]

\* The request waits at an await.
Await(r, pc) == [r EXCEPT !.pc = pc]

\* The request is answered; the locals of its handler are gone.
Respond(r, res) == [r EXCEPT !.pc = "done", !.res = res, !.user = NoUser, !.code = 0]

\* History: the entry a verifyOtp request met under its key.
EntryCase(cache, t, email) ==
    IF ~CacheHas(cache, email) THEN "absent"
    ELSE IF t - cache[email].timestamp > OTP_EXPIRY_TIME THEN "expired"
    ELSE "live"

\* History: what an issuance did to the entry under its key.
IssueCase(cache, email, otp) ==
    IF ~CacheHas(cache, email) THEN "fresh"
    ELSE IF cache[email].otp = otp THEN "same code"
    ELSE "replaced"

\* History: whether the password of a loginUser request is the one the
\* account was registered with.
PasswordCase(user, password) ==
    IF \E d \in user : BcryptCompare(password, d.password) THEN "match" ELSE "no match"

Free(s) == reqs[s].pc \in {"idle", "done"}

\* A new request takes the first free slot.
Arrives(s) == Free(s) /\ \A r \in Slots : Free(r) => s <= r

\* Variant: a failed send rejects the promise the controller awaits.
SendOutcomes_Rejects == {"success", "rejected"}

\* sendEmail(to, subject, html) is the notification channel, whose contract is
\* send(recipient, subject, body) -> success | error, an error being no
\* failure of the caller: the awaited call returns either of the two to the
\* controller.  (A promise that rejected would be caught by the handler, which
\* is the "rejected" branch of the two send steps.)
SendOutcomes == {"success", "error"}

InternalError == sendErrorResponse(500, "Internal server error")

----------------------------------------------------------------------------
(* registerUser *)

\* Lines 87-94: the request passed signupValidate; User.findOne and the test
\* of its result.
RegisterFindOne(s, email, password) ==
    /\ Arrives(s)
    /\ LET r == Request("register", email, password, <<>>)
           existingUser == FindOne(users, email)
       IN  reqs' = [reqs EXCEPT ![s] =
                IF existingUser # NoUser
                THEN Respond(r, sendErrorResponse(400, "User already exists"))
                ELSE Await(r, "create")]
    /\ UNCHANGED <<users, otpCache, now, consumed>>
    /\ UNCHANGED <<dbvars, mw>>

\* Lines 97-103: bcrypt.hash, then User.create; a duplicate-key error is
\* caught at line 114.
RegisterCreate(s) ==
    /\ reqs[s].op = "register" /\ reqs[s].pc = "create"
    /\ \E salt \in Salts :
        LET r == reqs[s]
            newUser == NewUser(users, r.email, BcryptHash(r.password, salt))
        IN  IF DuplicateKey(users, r.email)
            THEN /\ reqs' = [reqs EXCEPT ![s] = Respond(r, InternalError)]
                 /\ UNCHANGED users
            ELSE /\ users' = users \cup {newUser}
                 /\ reqs' = [reqs EXCEPT ![s] = Await([r EXCEPT !.user = {newUser}], "issue")]
    /\ UNCHANGED <<otpCache, now, consumed>>
    /\ UNCHANGED <<dbvars, mw>>

\* Lines 106-108: generateOtp, otpCache.set, and the call of sendOtpEmail.
RegisterIssue(s) ==
    /\ reqs[s].op = "register" /\ reqs[s].pc = "issue"
    /\ \E otp \in GenerateOtp :
        LET r == reqs[s] IN
        /\ otpCache' = CacheSet(otpCache, r.email, [otp |-> otp, timestamp |-> now])
        /\ consumed' = consumed \ {r.email}
        /\ reqs' = [reqs EXCEPT ![s] =
                Await([r EXCEPT !.code = otp, !.note = IssueCase(otpCache, r.email, otp)], "send")]
    /\ UNCHANGED <<users, now>>
    /\ UNCHANGED <<dbvars, mw>>

\* Variant: a send that did not succeed undoes the account and the entry.
RegisterSend_Rollback(s) ==
    /\ reqs[s].op = "register" /\ reqs[s].pc = "send"
    /\ \E outcome \in SendOutcomes :
        LET r == [reqs[s] EXCEPT !.send = outcome] IN
        IF outcome = "success"
        THEN /\ reqs' = [reqs EXCEPT ![s] = Respond(r, sendSuccessResponse(201,
                    "User registered successfully. Please check your email for the OTP.",
                    {}, {d.id : d \in r.user}))]
             /\ UNCHANGED <<users, otpCache>>
        ELSE /\ reqs' = [reqs EXCEPT ![s] = Respond(r, InternalError)]
             /\ users' = users \ r.user
             /\ otpCache' = CacheDelete(otpCache, r.email)
    /\ UNCHANGED <<now, consumed>>
    /\ UNCHANGED <<dbvars, mw>>

\* Lines 108-117: the awaited sendOtpEmail settles; a rejection is caught at
\* line 114.
RegisterSend(s) ==
    /\ reqs[s].op = "register" /\ reqs[s].pc = "send"
    /\ \E outcome \in SendOutcomes :
        LET r == [reqs[s] EXCEPT !.send = outcome] IN
        reqs' = [reqs EXCEPT ![s] =
            IF outcome = "rejected"
            THEN Respond(r, InternalError)
            ELSE Respond(r, sendSuccessResponse(201,
                    "User registered successfully. Please check your email for the OTP.",
                    {}, {d.id : d \in r.user}))]
    /\ UNCHANGED <<users, otpCache, now, consumed>>
    /\ UNCHANGED <<dbvars, mw>>

----------------------------------------------------------------------------
(* verifyOtp *)

\* Variant: the delete is put off until the account is updated, after the
\* await.
CheckOtp_DeleteLater(cache, t, email, otp) ==
    LET swept == cleanExpiredOtps(cache, t) IN
    IF ~CacheHas(swept, email)
    THEN [outcome |-> "OTP not generated or expired", cache |-> swept]
    ELSE IF ParseInt(otp).nan \/ ParseInt(otp).val # swept[email].otp
    THEN [outcome |-> "Invalid OTP", cache |-> swept]
    ELSE [outcome |-> "pass", cache |-> swept]

\* Lines 129-135, the cache check: the sweep, the lookup, the comparison of
\* parseInt(otp) with the stored number, and the delete.  The result is the
\* error message, or "pass", with the cache as the check leaves it.
CheckOtp(cache, t, email, otp) ==
    LET swept == cleanExpiredOtps(cache, t) IN
    IF ~CacheHas(swept, email)
    THEN [outcome |-> "OTP not generated or expired", cache |-> swept]
    ELSE IF ParseInt(otp).nan \/ ParseInt(otp).val # swept[email].otp
    THEN [outcome |-> "Invalid OTP", cache |-> swept]
    ELSE [outcome |-> "pass", cache |-> CacheDelete(swept, email)]

\* Variant: the account is updated before the outcome of the check is tested.
VerifyCheck_UpdateFirst(s, email, otp) ==
    /\ Arrives(s)
    /\ LET r == Request("verify", email, "", otp) IN
       IF email = "" \/ otp = <<>>
       THEN /\ reqs' = [reqs EXCEPT ![s] =
                    Respond(r, sendErrorResponse(400, "Email and OTP are required"))]
            /\ UNCHANGED <<users, otpCache, consumed>>
       ELSE LET c == CheckOtp(otpCache, now, email, otp)
                q == [r EXCEPT !.note = EntryCase(otpCache, now, email)]
            IN  /\ otpCache' = c.cache
                /\ users' = FindOneAndUpdate(users, email)
                /\ IF c.outcome = "pass"
                   THEN /\ reqs' = [reqs EXCEPT ![s] = Await(q, "update")]
                        /\ consumed' = consumed \cup {email}
                   ELSE /\ reqs' = [reqs EXCEPT ![s] =
                                Respond(q, sendErrorResponse(400, c.outcome))]
                        /\ UNCHANGED consumed
    /\ UNCHANGED now
    /\ UNCHANGED <<dbvars, mw>>

\* Lines 123-138: no validator is attached to the route; the test of the two
\* fields, the cache check, and the call of User.findOneAndUpdate.
VerifyCheck(s, email, otp) ==
    /\ Arrives(s)
    /\ LET r == Request("verify", email, "", otp) IN
       IF email = "" \/ otp = <<>>
       THEN /\ reqs' = [reqs EXCEPT ![s] =
                    Respond(r, sendErrorResponse(400, "Email and OTP are required"))]
            /\ UNCHANGED <<otpCache, consumed>>
       ELSE LET c == CheckOtp(otpCache, now, email, otp)
                q == [r EXCEPT !.note = EntryCase(otpCache, now, email)]
            IN  /\ otpCache' = c.cache
                /\ IF c.outcome = "pass"
                   THEN /\ reqs' = [reqs EXCEPT ![s] = Await(q, "update")]
                        /\ consumed' = consumed \cup {email}
                   ELSE /\ reqs' = [reqs EXCEPT ![s] =
                                Respond(q, sendErrorResponse(400, c.outcome))]
                        /\ UNCHANGED consumed
    /\ UNCHANGED <<users, now>>
    /\ UNCHANGED <<dbvars, mw>>

\* Lines 138-149: the update of the account, the token and the response.
VerifyUpdate(s) ==
    /\ reqs[s].op = "verify" /\ reqs[s].pc = "update"
    /\ LET r == reqs[s]
           updated == FindOneAndUpdate(users, r.email)
           user == FindOne(updated, r.email)
       IN  /\ users' = updated
           /\ reqs' = [reqs EXCEPT ![s] =
                IF user = NoUser
                THEN Respond(r, sendErrorResponse(404, "User not found"))
                ELSE Respond(r, sendSuccessResponse(200, "Account verified successfully.",
                        {JwtSign(d.id, now) : d \in user}, {d.id : d \in user}))]
    /\ UNCHANGED <<otpCache, now, consumed>>
    /\ UNCHANGED <<dbvars, mw>>

----------------------------------------------------------------------------
(* loginUser *)

\* Variant: the test of isVerified is left out.
LoginLookup_SkipVerified(user) ==
    IF user = NoUser THEN "Invalid email or password" ELSE ""

\* Lines 165-166: the answer given without comparing the password, "" when
\* bcrypt.compare is called.
LoginLookup(user) ==
    IF user = NoUser THEN "Invalid email or password"
    ELSE IF \E d \in user : ~d.isVerified THEN "Please verify your account first"
    ELSE ""

\* Lines 159-168: the request passed loginValidate; User.findOne, the tests
\* of its result, and the call of bcrypt.compare.
LoginFindOne(s, email, password) ==
    /\ Arrives(s)
    /\ LET user == FindOne(users, email)
           r == [Request("login", email, password, <<>>) EXCEPT
                    !.note = PasswordCase(user, password)]
       IN  reqs' = [reqs EXCEPT ![s] =
                IF LoginLookup(user) # ""
                THEN Respond(r, sendErrorResponse(401, LoginLookup(user)))
                ELSE Await([r EXCEPT !.user = user], "compare")]
    /\ UNCHANGED <<users, otpCache, now, consumed>>
    /\ UNCHANGED <<dbvars, mw>>

\* Lines 168-178: bcrypt.compare settles; the token and the response.
LoginCompare(s) ==
    /\ reqs[s].op = "login" /\ reqs[s].pc = "compare"
    /\ LET r == reqs[s]
           isMatch == \E d \in r.user : BcryptCompare(r.password, d.password)
       IN  reqs' = [reqs EXCEPT ![s] =
                IF ~isMatch
                THEN Respond(r, sendErrorResponse(401, "Invalid email or password"))
                ELSE Respond(r, sendSuccessResponse(200, "Login successful",
                        {JwtSign(d.id, now) : d \in r.user}, {d.id : d \in r.user}))]
    /\ UNCHANGED <<users, otpCache, now, consumed>>
    /\ UNCHANGED <<dbvars, mw>>

----------------------------------------------------------------------------
(* logoutUser *)

\* Lines 186-195: the cookie is cleared; no state of the server changes.
LogoutUser(s) ==
    /\ Arrives(s)
    /\ reqs' = [reqs EXCEPT ![s] =
            Respond(Request("logout", "", "", <<>>),
                sendSuccessResponse(200, "Logout successful", {}, {}))]
    /\ UNCHANGED <<users, otpCache, now, consumed>>
    /\ UNCHANGED <<dbvars, mw>>

----------------------------------------------------------------------------
(* resendOtp *)

\* Variant: an account that is verified is refused a new code.
ResendFindOne_Unverified(s, email) ==
    /\ Arrives(s)
    /\ LET r == Request("resend", email, "", <<>>)
           user == FindOne(users, email)
       IN  reqs' = [reqs EXCEPT ![s] =
                IF email = ""
                THEN Respond(r, sendErrorResponse(400, "Email is required"))
                ELSE IF user = NoUser
                THEN Respond(r, sendErrorResponse(404, "User not found"))
                ELSE IF \E d \in user : d.isVerified
                THEN Respond(r, sendErrorResponse(400, "Account already verified"))
                ELSE Await([r EXCEPT !.user = user], "issue")]
    /\ UNCHANGED <<users, otpCache, now, consumed>>
    /\ UNCHANGED <<dbvars, mw>>

\* Lines 200-207: no validator is attached to the route; the test of the
\* field, User.findOne and the test of its result.
ResendFindOne(s, email) ==
    /\ Arrives(s)
    /\ LET r == Request("resend", email, "", <<>>)
           user == FindOne(users, email)
       IN  reqs' = [reqs EXCEPT ![s] =
                IF email = ""
                THEN Respond(r, sendErrorResponse(400, "Email is required"))
                ELSE IF user = NoUser
                THEN Respond(r, sendErrorResponse(404, "User not found"))
                ELSE Await([r EXCEPT !.user = user], "issue")]
    /\ UNCHANGED <<users, otpCache, now, consumed>>
    /\ UNCHANGED <<dbvars, mw>>

\* Lines 209-211: generateOtp, otpCache.set, and the call of sendOtpEmail.
ResendIssue(s) ==
    /\ reqs[s].op = "resend" /\ reqs[s].pc = "issue"
    /\ \E otp \in GenerateOtp :
        LET r == reqs[s] IN
        /\ otpCache' = CacheSet(otpCache, r.email, [otp |-> otp, timestamp |-> now])
        /\ consumed' = consumed \ {r.email}
        /\ reqs' = [reqs EXCEPT ![s] =
                Await([r EXCEPT !.code = otp, !.note = IssueCase(otpCache, r.email, otp)], "send")]
    /\ UNCHANGED <<users, now>>
    /\ UNCHANGED <<dbvars, mw>>

\* Lines 211-217: the awaited sendOtpEmail settles; a rejection is caught at
\* line 214.
ResendSend(s) ==
    /\ reqs[s].op = "resend" /\ reqs[s].pc = "send"
    /\ \E outcome \in SendOutcomes :
        LET r == [reqs[s] EXCEPT !.send = outcome] IN
        reqs' = [reqs EXCEPT ![s] =
            IF outcome = "rejected"
            THEN Respond(r, InternalError)
            ELSE Respond(r, sendSuccessResponse(200, "New OTP sent successfully", {}, {}))]
    /\ UNCHANGED <<users, otpCache, now, consumed>>
    /\ UNCHANGED <<dbvars, mw>>

----------------------------------------------------------------------------
(* authMiddleware *)

NoMw == [token |-> {}, status |-> 0, message |-> "", user |-> {}, next |-> FALSE]

\* Variant: the expiry of the token is not looked at.
JwtVerify_IgnoreExpiration(token, t) == [err |-> "", decoded |-> {token}]

\* jwt.verify(token, JWT_SECRET, callback) at time t, for a token signed with
\* JWT_SECRET: the token is expired from the second of its exp claim on.
JwtVerify(token, t) ==
    IF t \div 1000 >= token.exp
    THEN [err |-> "TokenExpiredError", decoded |-> {}]
    ELSE [err |-> "", decoded |-> {token}]

\* Lines 300-331, for a request that carries the tokens given (none, or one as
\* cookie or bearer header).
AuthMiddleware(tokens) ==
    /\ mw' =
        IF tokens = {}
        THEN [token |-> {}, status |-> 401,
              message |-> "No token provided, Unauthorized", user |-> {}, next |-> FALSE]
        ELSE LET token == CHOOSE tk \in tokens : TRUE
                 v == JwtVerify(token, now)
             IN  IF v.err # ""
                 THEN [token |-> tokens, status |-> 403,
                       message |-> "Invalid or expired token, Forbidden",
                       user |-> {}, next |-> FALSE]
                 ELSE [token |-> tokens, status |-> 0, message |-> "",
                       user |-> v.decoded, next |-> TRUE]
    /\ UNCHANGED <<users, otpCache, now, reqs, consumed, dbvars>>

----------------------------------------------------------------------------
(* Time *)

Tick ==
    /\ now + TickMs <= MaxTicks * TickMs
    /\ now' = now + TickMs
    /\ UNCHANGED <<users, otpCache, reqs, consumed>>
    /\ UNCHANGED <<dbvars, mw>>

----------------------------------------------------------------------------
(* The serial specification: a request is answered before the next arrives, *)
(* and the server has started and is connected to the store                 *)

Init ==
    /\ users = {}
    /\ otpCache = <<>>
    /\ now = 0
    /\ reqs = [s \in Slots |-> Idle]
    /\ consumed = {}
    /\ retryCount = 0
    /\ connecting = 0
    /\ timers = <<>>
    /\ connected = TRUE
    /\ startup = "listening"
    /\ dbUp = TRUE
    /\ delays = <<>>
    /\ mw = NoMw

Next ==
    \/ \E s \in Serial, email \in Emails, password \in Passwords :
            RegisterFindOne(s, email, password)
    \/ \E s \in Serial : RegisterCreate(s)
    \/ \E s \in Serial : RegisterIssue(s)
    \/ \E s \in Serial : RegisterSend(s)
    \/ \E s \in Serial, email \in EmailInputs, otp \in OtpInputs : VerifyCheck(s, email, otp)
    \/ \E s \in Serial : VerifyUpdate(s)
    \/ \E s \in Serial, email \in Emails, password \in Passwords :
            LoginFindOne(s, email, password)
    \/ \E s \in Serial : LoginCompare(s)
    \/ \E s \in Serial : LogoutUser(s)
    \/ \E s \in Serial, email \in EmailInputs : ResendFindOne(s, email)
    \/ \E s \in Serial : ResendIssue(s)
    \/ \E s \in Serial : ResendSend(s)
    \/ Tick

Spec == Init /\ [][Next]_vars

----------------------------------------------------------------------------
(* Tokens over their lifetime: registration, verification and login of the  *)
(* serial specification, the clock advancing by half the lifetime of a      *)
(* token, and the client presenting the token of the last response          *)

TokenTickMs == (JWT_EXPIRE_SECONDS * 1000) \div 2

TokenPasswords == {"secret1"}

TokenTick ==
    /\ now + TokenTickMs <= MaxTokenTicks * TokenTickMs
    /\ now' = now + TokenTickMs
    /\ UNCHANGED <<users, otpCache, reqs, consumed, dbvars, mw>>

NextToken ==
    \/ \E s \in Serial, email \in Emails, password \in TokenPasswords :
            RegisterFindOne(s, email, password)
    \/ \E s \in Serial : RegisterCreate(s)
    \/ \E s \in Serial : RegisterIssue(s)
    \/ \E s \in Serial : RegisterSend(s)
    \/ \E s \in Serial, email \in Emails, c \in GenerateOtp :
            VerifyCheck(s, email, NumberToString(c))
    \/ \E s \in Serial : VerifyUpdate(s)
    \/ \E s \in Serial, email \in Emails, password \in TokenPasswords :
            LoginFindOne(s, email, password)
    \/ \E s \in Serial : LoginCompare(s)
    \/ \E s \in Serial : AuthMiddleware(reqs[s].res.token)
    \/ TokenTick

SpecToken == Init /\ [][NextToken]_vars

----------------------------------------------------------------------------
(* Concurrent requests on one e-mail: two requests in flight, their steps   *)
(* interleaved at the awaits                                                *)

RaceEmails == {"A@x.com"}

NextRace ==
    \/ \E s \in Slots, email \in RaceEmails, password \in TokenPasswords :
            RegisterFindOne(s, email, password)
    \/ \E s \in Slots : RegisterCreate(s)
    \/ \E s \in Slots : RegisterIssue(s)
    \/ \E s \in Slots : RegisterSend(s)
    \/ \E s \in Slots, email \in RaceEmails, c \in GenerateOtp :
            VerifyCheck(s, email, NumberToString(c))
    \/ \E s \in Slots : VerifyUpdate(s)
    \/ \E s \in Slots, email \in RaceEmails : ResendFindOne(s, email)
    \/ \E s \in Slots : ResendIssue(s)
    \/ \E s \in Slots : ResendSend(s)
    \/ Tick

SpecRace == Init /\ [][NextRace]_vars

----------------------------------------------------------------------------
(* Concurrent requests on two e-mails: registration (with its issuance) and *)
(* verifyOtp (with its sweep), two requests in flight, and the clock        *)

SweepCodes == {NumberToString(c) : c \in {Pow(10, OTP_LENGTH - 1)}}

NextSweep ==
    \/ \E s \in Slots, email \in Emails, password \in TokenPasswords :
            RegisterFindOne(s, email, password)
    \/ \E s \in Slots : RegisterCreate(s)
    \/ \E s \in Slots : RegisterIssue(s)
    \/ \E s \in Slots : RegisterSend(s)
    \/ \E s \in Slots, email \in Emails, otp \in SweepCodes : VerifyCheck(s, email, otp)
    \/ \E s \in Slots : VerifyUpdate(s)
    \/ Tick

SpecSweep == Init /\ [][NextSweep]_vars

----------------------------------------------------------------------------
(* Concurrent requests of all five handlers on one e-mail: two requests in  *)
(* flight, and the clock                                                    *)

NextSession ==
    \/ \E s \in Slots, email \in RaceEmails, password \in TokenPasswords :
            RegisterFindOne(s, email, password)
    \/ \E s \in Slots : RegisterCreate(s)
    \/ \E s \in Slots : RegisterIssue(s)
    \/ \E s \in Slots : RegisterSend(s)
    \/ \E s \in Slots, email \in RaceEmails, c \in GenerateOtp :
            VerifyCheck(s, email, NumberToString(c))
    \/ \E s \in Slots : VerifyUpdate(s)
    \/ \E s \in Slots, email \in RaceEmails, password \in Passwords :
            LoginFindOne(s, email, password)
    \/ \E s \in Slots : LoginCompare(s)
    \/ \E s \in Slots : LogoutUser(s)
    \/ \E s \in Slots, email \in RaceEmails : ResendFindOne(s, email)
    \/ \E s \in Slots : ResendIssue(s)
    \/ \E s \in Slots : ResendSend(s)
    \/ Tick

SpecSession == Init /\ [][NextSession]_vars

----------------------------------------------------------------------------
(* The connection to the store: connectDB and the startup script *)

Min(a, b) == IF a < b THEN a ELSE b

\* Variant: the delay has no ceiling.
RetryDelay_NoCeiling(count) == 5000 * Pow(2, count - 1)

\* Line 36: Math.min(5000 * 2 ** (retryCount - 1), MAX_RETRY_DELAY).
RetryDelay(count) == Min(5000 * Pow(2, count - 1), MAX_RETRY_DELAY)

\* The sequence without its i-th element.
RemoveAt(seq, i) == SubSeq(seq, 1, i - 1) \o SubSeq(seq, i + 1, Len(seq))

\* Startup, line 105: connectDB() is called and its promise is not awaited;
\* connectDB runs to its await (lines 21-27), the call of mongoose.connect.
StartupConnectDB ==
    /\ startup = "connectDB"
    /\ startup' = "listen"
    /\ connecting' = connecting + 1
    /\ UNCHANGED <<retryCount, timers, connected, dbUp, delays>>
    /\ UNCHANGED authvars

\* Startup, lines 109-114: app.listen.
StartupListen ==
    /\ startup = "listen"
    /\ startup' = "listening"
    /\ UNCHANGED <<retryCount, connecting, timers, connected, dbUp, delays>>
    /\ UNCHANGED authvars

\* Lines 24-30: the awaited mongoose.connect resolves.
ConnectSucceeds ==
    /\ connecting > 0 /\ dbUp
    /\ connecting' = connecting - 1
    /\ connected' = TRUE
    /\ retryCount' = 0
    /\ UNCHANGED <<timers, startup, dbUp, delays>>
    /\ UNCHANGED authvars

\* Variant: after the third failure no retry is scheduled.
ConnectFails_GivesUp ==
    /\ connecting > 0 /\ ~dbUp
    /\ Len(delays) < MaxFailures
    /\ connecting' = connecting - 1
    /\ retryCount' = retryCount + 1
    /\ LET retryDelay == RetryDelay(retryCount + 1) IN
        /\ timers' = IF retryCount + 1 > 3 THEN timers ELSE Append(timers, retryDelay)
        /\ delays' = Append(delays, retryDelay)
    /\ UNCHANGED <<connected, startup, dbUp>>
    /\ UNCHANGED authvars

\* Variant: a failure schedules the retry and also calls connectDB at once.
ConnectFails_RetriesTwice ==
    /\ connecting > 0 /\ ~dbUp
    /\ Len(delays) < MaxFailures
    /\ connecting' = connecting
    /\ retryCount' = retryCount + 1
    /\ LET retryDelay == RetryDelay(retryCount + 1) IN
        /\ timers' = Append(timers, retryDelay)
        /\ delays' = Append(delays, retryDelay)
    /\ UNCHANGED <<connected, startup, dbUp>>
    /\ UNCHANGED authvars

\* Lines 31-43: the awaited mongoose.connect rejects (at the latest when the
\* server selection times out); the counter, the delay and setTimeout.
ConnectFails ==
    /\ connecting > 0 /\ ~dbUp
    /\ Len(delays) < MaxFailures
    /\ connecting' = connecting - 1
    /\ retryCount' = retryCount + 1
    /\ LET retryDelay == RetryDelay(retryCount + 1) IN
        /\ timers' = Append(timers, retryDelay)
        /\ delays' = Append(delays, retryDelay)
    /\ UNCHANGED <<connected, startup, dbUp>>
    /\ UNCHANGED authvars

\* Line 42, later: a timer fires and connectDB runs to its await.
TimerFires ==
    /\ timers # <<>>
    /\ \E i \in 1..Len(timers) : timers' = RemoveAt(timers, i)
    /\ connecting' = connecting + 1
    /\ UNCHANGED <<retryCount, connected, startup, dbUp, delays>>
    /\ UNCHANGED authvars

\* Environment: the store becomes reachable, or stops being reachable.
StoreTurns ==
    /\ dbUp' = ~dbUp
    /\ UNCHANGED <<retryCount, connecting, timers, connected, startup, delays>>
    /\ UNCHANGED authvars

\* The state when the startup script begins: line 17, and no request yet.
InitDB ==
    /\ users = {}
    /\ otpCache = <<>>
    /\ now = 0
    /\ reqs = [s \in Slots |-> Idle]
    /\ consumed = {}
    /\ retryCount = 0
    /\ connecting = 0
    /\ timers = <<>>
    /\ connected = FALSE
    /\ startup = "connectDB"
    /\ dbUp \in BOOLEAN
    /\ delays = <<>>
    /\ mw = NoMw

NextDB ==
    \/ StartupConnectDB
    \/ StartupListen
    \/ ConnectSucceeds
    \/ ConnectFails
    \/ TimerFires
    \/ StoreTurns

SpecDB == InitDB /\ [][NextDB]_vars

\* Node runs the startup script and fires a timer that is due, and an awaited
\* mongoose.connect settles (serverSelectionTimeoutMS bounds the wait).
SpecDBFair ==
    /\ SpecDB
    /\ WF_vars(StartupConnectDB)
    /\ WF_vars(StartupListen)
    /\ WF_vars(TimerFires)
    /\ WF_vars(ConnectSucceeds)
    /\ WF_vars(ConnectFails)

----------------------------------------------------------------------------
(* The claims.  A property of one step of a handler is stated of every     *)
(* transition that is such a step; the request body is read from the slot. *)

\* The entry under key e is within the expiry window.
Live(e) ==
    CacheHas(otpCache, e) /\ now - otpCache[e].timestamp <= OTP_EXPIRY_TIME

\* The entry under key e is past the expiry window.
Stale(e) ==
    CacheHas(otpCache, e) /\ now - otpCache[e].timestamp > OTP_EXPIRY_TIME

\* The supplied value o is the code stored under key e, as the e-mail shows it.
IsStoredCode(e, o) == CacheHas(otpCache, e) /\ o = NumberToString(otpCache[e].otp)

NotFoundOutcome == sendErrorResponse(400, "OTP not generated or expired")

MismatchOutcome == sendErrorResponse(400, "Invalid OTP")

Answered(s, op) == reqs[s].op = op /\ reqs[s].pc = "done"

\* The transition is the first step of a verifyOtp request in slot s that
\* supplies both fields.
VerifyChecks(s) ==
    /\ Free(s) /\ now' = now
    /\ reqs'[s].op = "verify" /\ reqs'[s].email # "" /\ reqs'[s].otp # <<>>
    /\ VerifyCheck(s, reqs'[s].email, reqs'[s].otp)

\* The transition is the last step of a verifyOtp request in slot s.
VerifyUpdates(s) ==
    reqs[s].op = "verify" /\ reqs[s].pc = "update" /\ reqs'[s].pc = "done"

\* C1: an issued code is accepted at most once.  A verifyOtp with the stored
\* code of a live entry passes the cache check and deletes the entry, and the
\* request then ends with the 200 response; a check passes only for a key
\* whose latest issued entry was not accepted before, and leaves no entry
\* under it; and once the entry was accepted, every verifyOtp for the key
\* made before a new issuance is answered 'OTP not generated or expired'.
C1_SingleUse ==
    [][\A s \in Slots :
        /\ VerifyChecks(s) =>
            LET e == reqs'[s].email
                o == reqs'[s].otp
            IN  /\ (Live(e) /\ IsStoredCode(e, o)) => reqs'[s].pc = "update"
                /\ reqs'[s].pc = "update" =>
                        (e \notin consumed /\ ~CacheHas(otpCache', e))
                /\ e \in consumed => reqs'[s].res = NotFoundOutcome
        /\ VerifyUpdates(s) => reqs'[s].res.status = 200
      ]_vars

\* C1 witness: a verifyOtp for a key whose entry was accepted, with no new
\* issuance since, and supplying the code that was accepted, was answered
\* 'OTP not generated or expired'.
C1_Witness ==
    \E s \in Slots :
        /\ Answered(s, "verify")
        /\ reqs[s].res = NotFoundOutcome
        /\ reqs[s].email \in consumed
        /\ reqs[s].note = "absent"

\* C2, as claimed: with a live entry under E, every supplied value that is not
\* the stored code is answered 'Invalid OTP' and the entry stays as it was.
C2_MismatchKeepsEntry ==
    [][\A s \in Slots :
        (VerifyChecks(s) /\ Live(reqs'[s].email)
            /\ ~IsStoredCode(reqs'[s].email, reqs'[s].otp)) =>
            /\ reqs'[s].res = MismatchOutcome
            /\ CacheHas(otpCache', reqs'[s].email)
            /\ otpCache'[reqs'[s].email] = otpCache[reqs'[s].email]
      ]_vars

\* C3, as claimed: a verifyOtp that meets an entry past the window is answered
\* with an outcome of its own, not the one given when there is no entry, and
\* the entry is evicted.
C3_ExpiredIsDistinct ==
    [][\A s \in Slots :
        (VerifyChecks(s) /\ Stale(reqs'[s].email)) =>
            /\ reqs'[s].pc = "done"
            /\ reqs'[s].res.status = 400
            /\ reqs'[s].res # NotFoundOutcome
            /\ ~CacheHas(otpCache', reqs'[s].email)
      ]_vars

\* C3, amended: a verifyOtp that supplies a code and meets an entry past the
\* window fails, whatever the code, with the same 'OTP not generated or
\* expired' answer as when there is no entry; the entry is evicted by the
\* call and no account changes.
C3_ExpiredAsNotFound ==
    [][\A s \in Slots :
        (VerifyChecks(s) /\ Stale(reqs'[s].email)) =>
            /\ reqs'[s].pc = "done"
            /\ reqs'[s].res = NotFoundOutcome
            /\ ~CacheHas(otpCache', reqs'[s].email)
            /\ users' = users
      ]_vars

\* C3 witness: a verifyOtp met an expired entry, which is gone, and was answered 'OTP not generated or expired'.
C3_Witness ==
    \E s \in Slots :
        /\ Answered(s, "verify")
        /\ reqs[s].note = "expired"
        /\ reqs[s].res = NotFoundOutcome
        /\ ~CacheHas(otpCache, reqs[s].email)

\* The accounts stored for the e-mail e.
Accounts(e) == {d \in users : d.email = Lowercase(e)}

\* p is the password account d was registered with.
IsPasswordOf(p, d) == d.password = BcryptHash(p, d.password.salt)

UniqueEmails == \A d1, d2 \in users : d1.email = d2.email => d1 = d2

AlreadyExistsOutcome == sendErrorResponse(400, "User already exists")

NotVerifiedOutcome == sendErrorResponse(401, "Please verify your account first")

InvalidCredentialsOutcome == sendErrorResponse(401, "Invalid email or password")

\* The transition is the first step of a registerUser request in slot s.
RegisterFinds(s) ==
    /\ Free(s) /\ now' = now
    /\ reqs'[s].op = "register"
    /\ RegisterFindOne(s, reqs'[s].email, reqs'[s].password)

\* The transition is the first step of a loginUser request in slot s.
LoginFinds(s) ==
    /\ Free(s) /\ now' = now
    /\ reqs'[s].op = "login"
    /\ LoginFindOne(s, reqs'[s].email, reqs'[s].password)

\* The transition is the last step of a loginUser request in slot s.
LoginCompares(s) ==
    reqs[s].op = "login" /\ reqs[s].pc = "compare" /\ reqs'[s].pc = "done"

\* The transition is the issuance step of a resendOtp request in slot s.
ResendIssues(s) ==
    reqs[s].op = "resend" /\ reqs[s].pc = "issue" /\ reqs'[s].pc = "send"

\* C4: no two accounts share an e-mail, and a registerUser for an e-mail
\* that has an account, verified or not, is answered 'User already exists'
\* and creates nothing.
C4_AlreadyExists ==
    /\ []UniqueEmails
    /\ [][\A s \in Slots :
            (RegisterFinds(s) /\ Accounts(reqs'[s].email) # {}) =>
                /\ reqs'[s].res = AlreadyExistsOutcome
                /\ users' = users
         ]_vars

\* C4 witness: a registerUser for the e-mail of a verified account was
\* answered 'User already exists', and the e-mail has one account.
C4_Witness ==
    \E s \in Slots :
        /\ Answered(s, "register")
        /\ reqs[s].res = AlreadyExistsOutcome
        /\ Cardinality(Accounts(reqs[s].email)) = 1
        /\ \A d \in Accounts(reqs[s].email) : d.isVerified

\* C5: loginUser with the password of an unverified account is answered
\* 'Please verify your account first', without a token; a verifyOtp that
\* ends with 200 leaves the account verified; a verified account stays as it
\* is in every later state; and loginUser with the password of a verified
\* account is answered 200 with a token for that account.
C5_LoginAfterVerify ==
    [][\A s \in Slots :
        /\ LoginFinds(s) =>
            \A d \in Accounts(reqs'[s].email) :
                IsPasswordOf(reqs'[s].password, d) =>
                    /\ ~d.isVerified => reqs'[s].res = NotVerifiedOutcome
                    /\ d.isVerified => reqs'[s].pc = "compare"
        /\ LoginCompares(s) =>
            \A d \in Accounts(reqs[s].email) :
                (d.isVerified /\ IsPasswordOf(reqs[s].password, d)) =>
                    /\ reqs'[s].res.status = 200
                    /\ reqs'[s].res.token # {}
                    /\ \A t \in reqs'[s].res.token : t.id = d.id
        /\ (VerifyUpdates(s) /\ reqs'[s].res.status = 200) =>
            /\ Accounts(reqs[s].email) # {}
            /\ \A d \in users' : d.email = Lowercase(reqs[s].email) => d.isVerified
        /\ \A d \in users : d.isVerified => d \in users'
      ]_vars

\* C5 witness: a loginUser with the password of a verified account was
\* answered 200 with a token.
C5_Witness ==
    \E s \in Slots :
        /\ Answered(s, "login")
        /\ reqs[s].note = "match"
        /\ reqs[s].res.status = 200
        /\ reqs[s].res.token # {}
        /\ \A d \in Accounts(reqs[s].email) : d.isVerified

\* C6, as claimed: a loginUser whose password does not match, whether there
\* is no account for the e-mail or an account, verified or not, is answered
\* 'Invalid email or password'.
C6_WrongPasswordIsGeneric ==
    \A s \in Slots :
        (Answered(s, "login") /\ reqs[s].note = "no match") =>
            reqs[s].res = InvalidCredentialsOutcome

\* C7: the issuance step of resendOtp leaves under E one entry, with the code
\* it generated and the current time, and touches no other key; a verifyOtp
\* that meets a live entry and supplies another issued code is answered
\* 'Invalid OTP' and changes neither the accounts nor that entry; one that
\* supplies the stored code passes the check, and the request then ends with
\* 200, a token, and the account verified.
C7_ResendOverwrites ==
    [][\A s \in Slots :
        /\ ResendIssues(s) =>
            LET e == reqs[s].email IN
            /\ DOMAIN otpCache' = DOMAIN otpCache \cup {e}
            /\ otpCache'[e] = [otp |-> reqs'[s].code, timestamp |-> now]
            /\ \A k \in DOMAIN otpCache \ {e} : otpCache'[k] = otpCache[k]
        /\ VerifyChecks(s) =>
            LET e == reqs'[s].email
                o == reqs'[s].otp
            IN  /\ (Live(e) /\ \E c \in GenerateOtp :
                                c # otpCache[e].otp /\ o = NumberToString(c)) =>
                        /\ reqs'[s].res = MismatchOutcome
                        /\ users' = users
                        /\ CacheHas(otpCache', e)
                        /\ otpCache'[e] = otpCache[e]
                /\ (Live(e) /\ IsStoredCode(e, o)) => reqs'[s].pc = "update"
        /\ VerifyUpdates(s) =>
            /\ reqs'[s].res.status = 200
            /\ reqs'[s].res.token # {}
            /\ \E d \in users' : d.email = Lowercase(reqs[s].email) /\ d.isVerified
      ]_vars

\* C7 witness: a resendOtp that replaced an entry holding another code was
\* answered 200, and the entry under its key holds a code and the time of
\* the issuance.
C7_Witness ==
    \E s \in Slots :
        /\ Answered(s, "resend")
        /\ reqs[s].note = "replaced"
        /\ reqs[s].res.status = 200
        /\ CacheHas(otpCache, reqs[s].email)

\* C8: a verified account stays verified, and an account becomes verified
\* only in the last step of a verifyOtp request for its e-mail, which is
\* reached only through a cache check that passed.
C8_VerifiedTerminal ==
    [][/\ \A d \in users : d.isVerified => d \in users'
       /\ \A d \in users' :
            (d.isVerified /\ d \notin users) =>
                \E s \in Slots :
                    /\ VerifyUpdates(s)
                    /\ Lowercase(reqs[s].email) = d.email
                    /\ reqs[s].email \in consumed
                    /\ [d EXCEPT !.isVerified = FALSE] \in users
      ]_vars

\* C8 witness: a resendOtp was answered for an account that is verified, and
\* the account is still verified.
C8_Witness ==
    \E s \in Slots :
        /\ Answered(s, "resend")
        /\ reqs[s].res.status = 200
        /\ Accounts(reqs[s].email) # {}
        /\ \A d \in Accounts(reqs[s].email) : d.isVerified

\* C9: a verifyOtp that fails at the cache check is answered 'OTP not
\* generated or expired' when there is no entry or the entry is past the
\* window, and otherwise 'Invalid OTP'; it changes no account and carries no
\* token.
C9_FailedCheckChangesNothing ==
    [][\A s \in Slots :
        (VerifyChecks(s) /\ reqs'[s].pc = "done") =>
            /\ users' = users
            /\ reqs'[s].res.token = {}
            /\ reqs'[s].res =
                    IF Live(reqs'[s].email) THEN MismatchOutcome ELSE NotFoundOutcome
      ]_vars

\* C9 witness: a verifyOtp for an unverified account was answered 'Invalid
\* OTP', and the account is still unverified.
C9_Witness ==
    \E s \in Slots :
        /\ Answered(s, "verify")
        /\ reqs[s].res = MismatchOutcome
        /\ Accounts(reqs[s].email) # {}
        /\ \A d \in Accounts(reqs[s].email) : ~d.isVerified

\* The send of the request in slot s settled, and not with success.
SendFailed(s) == reqs[s].send \notin {"", "success"}

\* C10: a registerUser or resendOtp whose send failed is answered with its
\* success result: 201 with the id of the new account, or 200.
C10_SendFailureSwallowed ==
    \A s \in Slots :
        (reqs[s].pc = "done" /\ SendFailed(s)) =>
            /\ reqs[s].op = "register" =>
                /\ reqs[s].res.status = 201
                /\ reqs[s].res.userId = {d.id : d \in Accounts(reqs[s].email)}
                /\ reqs[s].res.userId # {}
            /\ reqs[s].op = "resend" => reqs[s].res.status = 200

\* C10 witness: a registerUser whose send failed was answered 201.
C10_Witness ==
    \E s \in Slots :
        /\ Answered(s, "register")
        /\ SendFailed(s)
        /\ reqs[s].res.status = 201

\* The transition is the last step of a registerUser request in slot s.
RegisterSends(s) ==
    reqs[s].op = "register" /\ reqs[s].pc = "send" /\ reqs'[s].pc = "done"

\* C11: the step of registerUser in which the send settles without success
\* changes neither the accounts nor the cache, so the account the call
\* created is there, unverified, and the entry under its e-mail holds the
\* code the call issued; and while that request is the last one answered,
\* the account is found by resendOtp, and the cache check of a verifyOtp
\* with the stored code passes as long as the entry is within the window.
C11_NoRollback ==
    /\ [][\A s \in Slots :
            (RegisterSends(s) /\ reqs'[s].send # "success") =>
                LET e == reqs[s].email IN
                /\ users' = users
                /\ otpCache' = otpCache
                /\ reqs[s].user # {}
                /\ reqs[s].user \subseteq users'
                /\ \A d \in reqs[s].user : ~d.isVerified /\ d.email = Lowercase(e)
                /\ CacheHas(otpCache', e)
                /\ otpCache'[e].otp = reqs[s].code
         ]_vars
    /\ [](\A s \in Slots :
            (Answered(s, "register") /\ SendFailed(s)) =>
                LET e == reqs[s].email IN
                /\ FindOne(users, e) # NoUser
                /\ \A d \in Accounts(e) : ~d.isVerified
                /\ CacheHas(otpCache, e)
                /\ Live(e) =>
                    CheckOtp(otpCache, now, e, NumberToString(otpCache[e].otp)).outcome
                        = "pass")

\* C11 witness: a registerUser whose send failed was answered, and its
\* account and a live entry under its e-mail are there.
C11_Witness ==
    \E s \in Slots :
        /\ Answered(s, "register")
        /\ SendFailed(s)
        /\ Accounts(reqs[s].email) # {}
        /\ Live(reqs[s].email)

UserNotFoundOutcome == sendErrorResponse(404, "User not found")

\* The transition is the first step of a resendOtp request in slot s that
\* supplies an e-mail.
ResendFinds(s) ==
    /\ Free(s) /\ now' = now
    /\ reqs'[s].op = "resend" /\ reqs'[s].email # ""
    /\ ResendFindOne(s, reqs'[s].email)

\* The transition is a step of a resendOtp request in slot s.
ResendSteps(s) == reqs'[s].op = "resend" /\ reqs'[s] # reqs[s]

\* C12: a resendOtp for an e-mail that has no account is answered 'User not
\* found' and leaves the cache as it was; one for an e-mail that has an
\* account, verified or not, goes on to the issuance, which puts under the
\* e-mail an entry with a generated code and the current time; and no step of
\* a resendOtp changes an account.
C12_ResendNeedsAccount ==
    [][\A s \in Slots :
        /\ ResendFinds(s) =>
            /\ Accounts(reqs'[s].email) = {} =>
                /\ reqs'[s].pc = "done"
                /\ reqs'[s].res = UserNotFoundOutcome
                /\ otpCache' = otpCache
            /\ Accounts(reqs'[s].email) # {} => reqs'[s].pc = "issue"
        /\ ResendIssues(s) =>
            /\ Accounts(reqs[s].email) # {}
            /\ CacheHas(otpCache', reqs[s].email)
            /\ otpCache'[reqs[s].email].otp \in GenerateOtp
            /\ otpCache'[reqs[s].email].timestamp = now
        /\ ResendSteps(s) => users' = users
      ]_vars

\* C12 witness: a resendOtp for a verified account whose entry had been
\* accepted was answered 200, and a live entry is under the e-mail again.
C12_Witness ==
    \E s \in Slots :
        /\ Answered(s, "resend")
        /\ reqs[s].note = "fresh"
        /\ reqs[s].res.status = 200
        /\ Accounts(reqs[s].email) # {}
        /\ \A d \in Accounts(reqs[s].email) : d.isVerified
        /\ Live(reqs[s].email)

\* The transition is a connect attempt that failed.
AttemptFailed == Len(delays') = Len(delays) + 1

\* The transition is a connect attempt that succeeded.
AttemptSucceeded == connecting' = connecting - 1 /\ delays' = delays

\* C13: the retry delay computed after the k-th failed attempt in a row is
\* min(5000 * 2^(k-1), 60000): 5000, 10000, 20000 after the first three, and
\* never above 60000; it is the delay of the timer that is set; an attempt
\* that succeeds leaves the counter at 0, no attempt fails once one has
\* succeeded, and a failure met with the counter at 0 computes 5000.
C13_Backoff ==
    /\ [](/\ \A k \in 1..Len(delays) :
                /\ delays[k] = Min(5000 * Pow(2, k - 1), 60000)
                /\ delays[k] <= 60000
          /\ Len(delays) >= 3 => SubSeq(delays, 1, 3) = <<5000, 10000, 20000>>
          /\ ~connected => retryCount = Len(delays)
          /\ connected => retryCount = 0)
    /\ [][/\ AttemptFailed =>
                /\ ~connected
                /\ timers' = <<delays'[Len(delays')]>>
                /\ retryCount = 0 => delays'[Len(delays')] = 5000
          /\ AttemptSucceeded => retryCount' = 0
         ]_vars

\* C13 witness: six attempts in a row failed, and the timer set after the
\* sixth has the ceiling as its delay.
C13_Witness ==
    /\ Len(delays) = 6
    /\ delays[4] = 40000
    /\ timers = <<MAX_RETRY_DELAY>>

\* C14: while connectDB has not succeeded, an attempt is outstanding again
\* and again, however many have failed; and if from some point on the store
\* is reachable, then from some point on connectDB has succeeded and neither
\* an attempt nor a timer is outstanding.
C14_NeverGivesUp ==
    /\ [](~connected => <>(connecting > 0))
    /\ (<>[]dbUp) => <>[](connected /\ connecting = 0 /\ timers = <<>>)

\* C14 witness: connectDB succeeded after six failed attempts, and neither an
\* attempt nor a timer is outstanding.
C14_Witness ==
    /\ connected
    /\ Len(delays) >= 6
    /\ connecting = 0
    /\ timers = <<>>

\* C15: at most one attempt or timer is outstanding: exactly one from the
\* call at startup until connectDB succeeds, and none afterwards; a failed
\* attempt ends and sets one timer, a successful one ends and sets none; and
\* the startup script goes on to app.listen whatever the state of the
\* connection.
C15_OneOutstanding ==
    /\ [](/\ connecting + Len(timers) <= 1
          /\ (startup # "connectDB" /\ ~connected) => connecting + Len(timers) = 1
          /\ connected => connecting + Len(timers) = 0
          /\ startup = "listen" => ENABLED StartupListen)
    /\ [][/\ AttemptFailed =>
                /\ connecting' = connecting - 1
                /\ Len(timers') = Len(timers) + 1
          /\ AttemptSucceeded => timers' = timers
         ]_vars

\* C15 witness: the server listens while the retry after the second failed
\* attempt is pending.
C15_Witness ==
    /\ startup = "listening"
    /\ ~connected
    /\ Len(delays) = 2
    /\ Len(timers) = 1
    /\ connecting = 0

ExpiredTokenOutcome == "Invalid or expired token, Forbidden"

\* The transition is a run of authMiddleware on the token of the response in
\* slot s.
MiddlewareRuns(s) ==
    /\ mw' # mw /\ reqs' = reqs
    /\ mw'.token # {} /\ mw'.token = reqs[s].res.token

\* C16: the token of a verifyOtp or loginUser response carries the id of the
\* account of that response and expires JWT_EXPIRE after it was signed;
\* presented before its expiry it passes authMiddleware, which calls next
\* with that id as req.user.id; presented after its expiry it is answered
\* 403 'Invalid or expired token, Forbidden', req.user is not set and next is
\* not called.
C16_TokenRoundTrip ==
    [][\A s \in Slots :
        MiddlewareRuns(s) =>
            \A tk \in reqs[s].res.token :
                /\ reqs[s].op \in {"verify", "login"}
                /\ reqs[s].res.userId = {tk.id}
                /\ \E d \in Accounts(reqs[s].email) : d.id = tk.id
                /\ tk.exp = tk.iat + JWT_EXPIRE_SECONDS
                /\ now < tk.exp * 1000 =>
                    /\ mw'.next
                    /\ mw'.status = 0
                    /\ mw'.user # {}
                    /\ \A u \in mw'.user : u.id = tk.id
                /\ now > tk.exp * 1000 =>
                    /\ ~mw'.next
                    /\ mw'.status = 403
                    /\ mw'.message = ExpiredTokenOutcome
                    /\ mw'.user = {}
      ]_vars

\* C16 witness: the token of a loginUser response was presented after its
\* expiry and answered 403.
C16_Witness ==
    \E s \in Slots :
        /\ Answered(s, "login")
        /\ mw.token # {}
        /\ mw.token = reqs[s].res.token
        /\ mw.status = 403
        /\ \A tk \in mw.token : now > tk.exp * 1000

\* The transition is the issuance step of the request in slot s.
Issues(s) == reqs[s].pc = "issue" /\ reqs'[s].pc = "send"

\* C17: with two requests in flight, the cache check of a verifyOtp is one
\* step: it passes exactly when the entry it meets under the key is within
\* the window and holds the supplied number; a check passes only for a key
\* whose latest issued entry no check has passed before, and leaves no entry
\* under it; and an entry appears or changes only in an issuance step, which
\* writes its code and its time together.
C17_AtomicCacheCheck ==
    [][/\ \A s \in Slots :
            VerifyChecks(s) =>
                LET e == reqs'[s].email
                    n == ParseInt(reqs'[s].otp)
                IN  /\ reqs'[s].pc = "update" <=>
                            (Live(e) /\ ~n.nan /\ n.val = otpCache[e].otp)
                    /\ reqs'[s].pc = "update" =>
                            /\ e \notin consumed
                            /\ e \in consumed'
                            /\ ~CacheHas(otpCache', e)
       /\ \A e \in DOMAIN otpCache' :
            (~CacheHas(otpCache, e) \/ otpCache'[e] # otpCache[e]) =>
                \E s \in Slots :
                    /\ Issues(s)
                    /\ reqs[s].email = e
                    /\ otpCache'[e] = [otp |-> reqs'[s].code, timestamp |-> now]
      ]_vars

\* C17 witness: of two verifyOtp requests in flight with the same code for
\* the same e-mail, one passed the check and waits for the update of the
\* account, the other met no entry and was answered so.
C17_Witness ==
    \E s1, s2 \in Slots :
        /\ reqs[s1].op = "verify" /\ reqs[s1].pc = "update"
        /\ Answered(s2, "verify")
        /\ reqs[s2].email = reqs[s1].email
        /\ reqs[s2].otp = reqs[s1].otp
        /\ reqs[s2].note = "absent"
        /\ reqs[s2].res = NotFoundOutcome

\* The transition is the step of a registerUser request in slot s in which
\* User.create settles.
RegisterCreates(s) ==
    reqs[s].op = "register" /\ reqs[s].pc = "create" /\ reqs'[s].pc # "create"

\* C18, as claimed: with two registerUser requests for one e-mail in flight,
\* no two accounts share the e-mail, and the request whose User.create does
\* not create the account is answered 'User already exists'.
C18_RaceGivesAlreadyExists ==
    /\ []UniqueEmails
    /\ [][\A s \in Slots :
            RegisterCreates(s) =>
                \/ /\ users' # users
                   /\ reqs'[s].pc = "issue"
                \/ /\ users' = users
                   /\ reqs'[s].res = AlreadyExistsOutcome
         ]_vars

\* The age of the entry under key k.
Age(k) == now - otpCache[k].timestamp

\* C19: the sweep keeps exactly the entries whose age is at most the window,
\* as they are; the cache check of a verifyOtp deletes every entry under
\* another key that is older than the window and leaves every other one
\* under another key as it is; an entry within the window goes only by being
\* accepted, and changes only by an issuance for its own key.
C19_SweepEvictsOnlyExpired ==
    /\ [](LET swept == cleanExpiredOtps(otpCache, now) IN
          /\ DOMAIN swept = {k \in DOMAIN otpCache : Age(k) <= OTP_EXPIRY_TIME}
          /\ \A k \in DOMAIN swept : swept[k] = otpCache[k])
    /\ [][/\ \A s \in Slots :
                VerifyChecks(s) =>
                    \A k \in DOMAIN otpCache \ {reqs'[s].email} :
                        IF Age(k) > OTP_EXPIRY_TIME
                        THEN ~CacheHas(otpCache', k)
                        ELSE CacheHas(otpCache', k) /\ otpCache'[k] = otpCache[k]
          /\ \A k \in DOMAIN otpCache :
                /\ (Age(k) <= OTP_EXPIRY_TIME /\ ~CacheHas(otpCache', k)) =>
                        \E s \in Slots :
                            /\ VerifyChecks(s)
                            /\ reqs'[s].email = k
                            /\ reqs'[s].pc = "update"
                /\ (CacheHas(otpCache', k) /\ otpCache'[k] # otpCache[k]) =>
                        \E s \in Slots : Issues(s) /\ reqs[s].email = k
         ]_vars

\* C19 witness: while a registerUser that has issued its entry waits for its
\* send, a verifyOtp for another e-mail met an expired entry, which is gone;
\* the entry of the registerUser, as old as the window, is still there.
C19_Witness ==
    \E s1, s2 \in Slots :
        /\ reqs[s1].op = "register" /\ reqs[s1].pc = "send"
        /\ Answered(s2, "verify")
        /\ reqs[s2].note = "expired"
        /\ reqs[s2].email # reqs[s1].email
        /\ ~CacheHas(otpCache, reqs[s2].email)
        /\ CacheHas(otpCache, reqs[s1].email)
        /\ Age(reqs[s1].email) = OTP_EXPIRY_TIME

\* The integers whose decimal form has exactly OTP_LENGTH digits, among the
\* ones offered to generateOtp.
FixedLengthCodes == {n \in OtpCandidates : Len(NumberToString(n)) = OTP_LENGTH}

\* C20, as claimed: every code in the cache has exactly OTP_LENGTH digits, and
\* every number of OTP_LENGTH digits, the largest one included, is a result
\* generateOtp can give.
C20_FullCodeSpace ==
    /\ \A k \in DOMAIN otpCache : Len(NumberToString(otpCache[k].otp)) = OTP_LENGTH
    /\ FixedLengthCodes \subseteq GenerateOtp

\* The transition puts a token into the response of the request in slot s.
IssuesToken(s) == reqs'[s].res.token # {} /\ reqs'[s] # reqs[s]

\* C21: a token appears only in the last step of a verifyOtp or of a
\* loginUser; it is signed at that moment for an account of the e-mail of the
\* request that is verified then; the verifyOtp step is the one that updates
\* the account, and the loginUser step follows a lookup that found the
\* account verified and a comparison that matched; and no response of
\* registerUser, resendOtp or logoutUser carries a token.
C21_TokenOnlyForVerified ==
    /\ [](\A s \in Slots :
            reqs[s].op \in {"register", "resend", "logout"} => reqs[s].res.token = {})
    /\ [][\A s \in Slots :
            IssuesToken(s) =>
                /\ VerifyUpdates(s) \/ LoginCompares(s)
                /\ reqs'[s].res.status = 200
                /\ \A tk \in reqs'[s].res.token :
                    /\ tk.iat = now \div 1000
                    /\ \E d \in users' :
                        /\ d.id = tk.id
                        /\ d.email = Lowercase(reqs[s].email)
                        /\ d.isVerified
                /\ LoginCompares(s) =>
                    /\ reqs[s].user # {}
                    /\ \A d \in reqs[s].user :
                        /\ d.isVerified
                        /\ d \in users
                        /\ BcryptCompare(reqs[s].password, d.password)
         ]_vars

\* C21 witness: a verifyOtp and a loginUser were both answered with a token
\* for the same account, which is verified.
C21_Witness ==
    \E s1, s2 \in Slots :
        /\ Answered(s1, "verify") /\ reqs[s1].res.token # {}
        /\ Answered(s2, "login") /\ reqs[s2].res.token # {}
        /\ reqs[s1].res.userId = reqs[s2].res.userId
        /\ \A d \in Accounts(reqs[s2].email) : d.isVerified

====
